---- MODULE Spec2Model ----
\* Model of src/src/App.tsx: the mapping-check viewer.
\*
\* Text is modelled as a sequence of characters; a character is a one-token
\* string ("a", " ", ",") and a character outside ASCII is written by its code
\* point ("U+00E9").  The user-visible messages of the source are Russian; they
\* are written here in Latin transliteration, one distinct string per message.
\*
\* A dataset is a sequence of records, a record is a sequence of
\* [key, val] members in the order JSON.parse met them, and a value is
\* [t, s, n, b]: t is the JSON type, s the text of a string, n the number and
\* b the boolean.  Datasets hold objects only (the element type MappingRow).
EXTENDS Integers, Sequences, FiniteSets, TLC

VARIABLES
    mounted,        \* the component has rendered once and its effect has run
    search,         \* window.location.search, as a sequence of <<name, value>>
    defaultFileUrl, \* useMemo(..., []) of line 41
    rows,           \* useState of line 35
    expectedKey,    \* useState of line 36
    actualKey,      \* useState of line 37
    error,          \* useState of line 38 (NULL or a message)
    loading,        \* useState of line 39
    keys,           \* useMemo of line 46
    results,        \* useMemo of line 48
    summary,        \* useMemo of line 67
    pending,        \* loads in flight: [id, kind], kind "url" (fetch) or "file" (FileReader)
    started,        \* number of loads initiated so far; the newest load has id = started
    fetchLog,       \* the URLs handed to fetch (line 103), in call order
    urlPromise,     \* the promise of loadFromUrl: "none", "pending", "fulfilled", "rejected"
    lastEvent,      \* the event whose handler ran last: [op, id, out]
    crashed         \* a render threw: React has unmounted the component

vars == <<mounted, search, defaultFileUrl, rows, expectedKey, actualKey, error,
          loading, keys, results, summary, pending, started, fetchLog,
          urlPromise, lastEvent, crashed>>

\* ---------------------------------------------------------------- bounds
\* At most this many files are chosen in one run.
MaxFileLoads == 2
\* The longest dataset of DeriveSpec.
MaxRows == 2
\* The longest title of NormalizeSpec.
MaxLen == 3

\* ---------------------------------------------------------------- text
NULL == "NULL"

UpperLetters == <<"A", "B", "C", "D", "E", "F", "G", "H", "I", "J", "K", "L", "M",
                  "N", "O", "P", "Q", "R", "S", "T", "U", "V", "W", "X", "Y", "Z">>
LowerLetters == <<"a", "b", "c", "d", "e", "f", "g", "h", "i", "j", "k", "l", "m",
                  "n", "o", "p", "q", "r", "s", "t", "u", "v", "w", "x", "y", "z">>
Digits == <<"0", "1", "2", "3", "4", "5", "6", "7", "8", "9">>

Range(s) == {s[i] : i \in DOMAIN s}

\* \p{L}: the ASCII letters, e-acute in both cases, capital I with dot above.
IsLetter(c) == c \in Range(UpperLetters) \cup Range(LowerLetters)
                       \cup {"U+00C9", "U+00E9", "U+0130"}

\* \p{N}
IsNumber(c) == c \in Range(Digits)

\* \s, and what String.prototype.trim removes: space, tab, no-break space.
IsWhite(c) == c \in {" ", "\t", "U+00A0"}

\* String.prototype.toLowerCase on one character; U+0130 lowers to two
\* characters, "i" and the combining dot above (a mark, not a letter).
LowerChar(c) ==
    IF c \in Range(UpperLetters)
    THEN <<LowerLetters[CHOOSE i \in DOMAIN UpperLetters : UpperLetters[i] = c]>>
    ELSE IF c = "U+00C9" THEN <<"U+00E9">>
    ELSE IF c = "U+0130" THEN <<"i", "U+0307">>
    ELSE <<c>>

RECURSIVE toLowerCase(_)
toLowerCase(s) ==
    IF s = <<>> THEN <<>> ELSE LowerChar(Head(s)) \o toLowerCase(Tail(s))

RECURSIVE trimStart(_)
trimStart(s) ==
    IF s # <<>> /\ IsWhite(Head(s)) THEN trimStart(Tail(s)) ELSE s

RECURSIVE trimEnd(_)
trimEnd(s) ==
    IF s # <<>> /\ IsWhite(s[Len(s)]) THEN trimEnd(SubSeq(s, 1, Len(s) - 1)) ELSE s

trim(s) == trimEnd(trimStart(s))

\* s.replace(/[^\p{L}\p{N}]+/gu, " "): every maximal run of characters that
\* are neither letter nor number becomes one space.
RECURSIVE replaceNonAlnum(_)
replaceNonAlnum(s) ==
    IF s = <<>> THEN <<>>
    ELSE IF IsLetter(Head(s)) \/ IsNumber(Head(s))
         THEN <<Head(s)>> \o replaceNonAlnum(Tail(s))
         ELSE IF Len(s) > 1 /\ ~(IsLetter(s[2]) \/ IsNumber(s[2]))
              THEN replaceNonAlnum(Tail(s))
              ELSE <<" ">> \o replaceNonAlnum(Tail(s))

\* s.replace(/\s+/g, " "): every maximal run of whitespace becomes one space.
RECURSIVE replaceWhite(_)
replaceWhite(s) ==
    IF s = <<>> THEN <<>>
    ELSE IF ~IsWhite(Head(s))
         THEN <<Head(s)>> \o replaceWhite(Tail(s))
         ELSE IF Len(s) > 1 /\ IsWhite(s[2])
              THEN replaceWhite(Tail(s))
              ELSE <<" ">> \o replaceWhite(Tail(s))

\* Mutant of normalizeTitle: the trim that ends line 16 is missing.
normalizeTitleNoFinalTrim(value) ==
    LET lowered  == trim(toLowerCase(value))
        replaced == replaceNonAlnum(lowered)
    IN  replaceWhite(replaced)

\* Mutant of normalizeTitle: toLowerCase is missing from line 14.
normalizeTitleNoLowerCase(value) ==
    LET lowered  == trim(value)
        replaced == replaceNonAlnum(lowered)
    IN  trim(replaceWhite(replaced))

normalizeTitle(value) ==
    LET lowered  == trim(toLowerCase(value))
        replaced == replaceNonAlnum(lowered)
    IN  trim(replaceWhite(replaced))

\* ---------------------------------------------------------------- values
Str(s)  == [t |-> "string",  s |-> s,    n |-> 0, b |-> FALSE]
Num(n)  == [t |-> "number",  s |-> <<>>, n |-> n, b |-> FALSE]
Bool(b) == [t |-> "boolean", s |-> <<>>, n |-> 0, b |-> b]
JsNull  == [t |-> "null",    s |-> <<>>, n |-> 0, b |-> FALSE]
JsUndefined == [t |-> "undefined", s |-> <<>>, n |-> 0, b |-> FALSE]
\* A built-in function, s its source text as Function.prototype.toString
\* gives it.
Fn(s)   == [t |-> "function", s |-> s, n |-> 0, b |-> FALSE]

RECURSIVE digitsOf(_)
digitsOf(n) ==
    IF n < 10 THEN <<Digits[n + 1]>>
    ELSE digitsOf(n \div 10) \o <<Digits[(n % 10) + 1]>>

\* String(value) for the scalar values of JSON.
String(v) ==
    CASE v.t = "string"    -> v.s
      [] v.t = "number"    -> IF v.n < 0 THEN <<"-">> \o digitsOf(0 - v.n) ELSE digitsOf(v.n)
      [] v.t = "boolean"   -> IF v.b THEN <<"t", "r", "u", "e">> ELSE <<"f", "a", "l", "s", "e">>
      [] v.t = "null"      -> <<"n", "u", "l", "l">>
      [] v.t = "undefined" -> <<"u", "n", "d", "e", "f", "i", "n", "e", "d">>
      [] v.t = "function"  -> v.s

\* Properties every object made by JSON.parse inherits from
\* Object.prototype (two of them).
ObjectPrototype ==
    << [key |-> "constructor",
        val |-> Fn(<<"f", "u", "n", "c", "t", "i", "o", "n", " ", "O", "b", "j", "e", "c", "t", "(", ")", " ", "{", " ", "[", "n", "a", "t", "i", "v", "e", " ", "c", "o", "d", "e", "]", " ", "}">>)],
       [key |-> "toString",
        val |-> Fn(<<"f", "u", "n", "c", "t", "i", "o", "n", " ", "t", "o", "S", "t", "r", "i", "n", "g", "(", ")", " ", "{", " ", "[", "n", "a", "t", "i", "v", "e", " ", "c", "o", "d", "e", "]", " ", "}">>)] >>

\* An array element that is null, not an object: written as a record with
\* the one member NULL.
NullElement == << [key |-> NULL, val |-> JsNull] >>

HasOwn(row, key) == \E i \in DOMAIN row : row[i].key = key

\* The value of the own member named key, undefined when there is none.
GetOwn(row, key) ==
    IF HasOwn(row, key)
    THEN row[CHOOSE i \in DOMAIN row : row[i].key = key].val
    ELSE JsUndefined

\* row[key]: the value of the own member named key, else of the member the
\* prototype has by that name, else undefined.
Get(row, key) ==
    IF HasOwn(row, key)
    THEN row[CHOOSE i \in DOMAIN row : row[i].key = key].val
    ELSE IF HasOwn(ObjectPrototype, key)
    THEN ObjectPrototype[CHOOSE i \in DOMAIN ObjectPrototype :
                             ObjectPrototype[i].key = key].val
    ELSE JsUndefined

\* row[key] throws a TypeError when row is null (line 20).
extractStringThrows(row, key) == row = NullElement

extractString(row, key) ==
    LET value == Get(row, key)
    IN  IF value = JsUndefined \/ value = JsNull THEN <<>> ELSE String(value)

\* Keys that are canonical array indices, in ascending order: Object.keys
\* lists these first, then the other keys in insertion order.
IntegerKeys == <<"0", "1", "2">>

RECURSIVE filterKeys(_, _)
filterKeys(ks, S) ==
    IF ks = <<>> THEN <<>>
    ELSE IF Head(ks) \in S THEN <<Head(ks)>> \o filterKeys(Tail(ks), S)
         ELSE filterKeys(Tail(ks), S)

ObjectKeys(row) ==
    LET own == [i \in DOMAIN row |-> row[i].key]
    IN  filterKeys(IntegerKeys, Range(own))
        \o filterKeys(own, Range(own) \ Range(IntegerKeys))

\* Mutant of detectKeys: the keys of the last record, not of the first.
detectKeysOfLast(rs) ==
    IF Len(rs) = 0 THEN <<>> ELSE ObjectKeys(rs[Len(rs)])

detectKeys(rs) ==
    IF Len(rs) = 0 THEN <<>> ELSE ObjectKeys(rs[1])

\* Object.keys(null) throws a TypeError (line 31).
detectKeysThrows(rs) == Len(rs) # 0 /\ rs[1] = NullElement

\* One element of results (lines 52-64).
resultRow(row, ek, ak) ==
    LET expectedTitle == extractString(row, ek)
        actualTitle   == extractString(row, ak)
        expectedNorm  == normalizeTitle(expectedTitle)
        actualNorm    == normalizeTitle(actualTitle)
    IN  [expectedTitle |-> expectedTitle,
         actualTitle   |-> actualTitle,
         expectedNorm  |-> expectedNorm,
         actualNorm    |-> actualNorm,
         isExact       |-> (expectedNorm = actualNorm)]

\* The body of the results memo (lines 49-64).
computeRows(rs, ek, ak) ==
    IF Len(rs) = 0 THEN <<>>
    ELSE [i \in DOMAIN rs |-> resultRow(rs[i], ek, ak)]

\* The callback of rows.map throws for some element (lines 53-54).
computeRowsThrows(rs, ek, ak) ==
    \E i \in DOMAIN rs : extractStringThrows(rs[i], ek) \/ extractStringThrows(rs[i], ak)

\* results.filter(pred).length
RECURSIVE countExact(_)
countExact(res) ==
    IF res = <<>> THEN 0
    ELSE (IF Head(res).isExact THEN 1 ELSE 0) + countExact(Tail(res))

\* Mutant of summarize: mismatched counts the rows whose raw titles differ.
RECURSIVE countRawDiffer(_)
countRawDiffer(res) ==
    IF res = <<>> THEN 0
    ELSE (IF Head(res).expectedTitle # Head(res).actualTitle THEN 1 ELSE 0)
         + countRawDiffer(Tail(res))

summarizeRawMismatch(res) ==
    [total |-> Len(res), matched |-> countExact(res), mismatched |-> countRawDiffer(res)]

\* The body of the summary memo (lines 68-73).
summarize(res) ==
    LET matched == countExact(res)
    IN  [total |-> Len(res), matched |-> matched, mismatched |-> Len(res) - matched]

\* ---------------------------------------------------------------- inputs
\* The JSON documents a file or a response body can hold.
OceanView   == <<"O", "c", "e", "a", "n", " ", "V", "i", "e", "w">>
OceanViewLc == <<"o", "c", "e", "a", "n", " ", "v", "i", "e", "w">>
StudioA     == <<"S", "t", "u", "d", "i", "o", " ", "A">>
StudioB     == <<"S", "t", "u", "d", "i", "o", " ", "B">>

Member(k, v) == [key |-> k, val |-> v]

DataEmpty == <<>>
DataTitles ==
    << <<Member("title", Str(OceanView)), Member("matched_csv_title", Str(OceanViewLc))>>,
       <<Member("title", Str(StudioA)), Member("matched_csv_title", Str(StudioB))>> >>
\* The first record lacks matched_csv_title and the second has only it.
DataNames ==
    << <<Member("name", Str(StudioA)), Member("title", Num(42))>>,
       <<Member("matched_csv_title", Str(StudioB))>> >>

Datasets == {DataEmpty, DataTitles, DataNames}

\* Records with a null, a number, a boolean and a padded text among their
\* values, with one of the default keys missing, with a key that is an array
\* index, and with a key that Object.prototype has too; and an array element
\* that is null.
RecordPool ==
    { <<Member("title", Str(OceanView)), Member("matched_csv_title", Str(OceanViewLc))>>,
      <<Member("title", Str(StudioA)), Member("matched_csv_title", Str(StudioB))>>,
      <<Member("title", JsNull), Member("name", Num(42))>>,
      <<Member("name", Str(<<" ", "4", "2", ",", "\t">>)), Member("title", Bool(TRUE)),
        Member("matched_csv_title", Num(42)), Member("1", Bool(FALSE))>>,
      <<Member("constructor", Str(<<"A", "c", "m", "e">>)), Member("title", Str(StudioA))>>,
      NullElement }

\* Every dataset of at most MaxRows records of the pool.
PoolDatasets == UNION {[1..n -> RecordPool] : n \in 0..MaxRows}

\* Titles of at most MaxLen characters: a capital and a small letter, a
\* digit, a space, a no-break space, a comma, and the capital I with dot
\* above, which lowers to two characters.
TitleAlphabet == {"A", "b", "1", " ", "U+00A0", ",", "U+0130"}
Titles == UNION {[1..n -> TitleAlphabet] : n \in 0..MaxLen}

\* The one-record datasets that hold such a title.
TitleDatasets == { << <<Member("title", Str(x))>> >> : x \in Titles }

\* What JSON.parse makes of a text: an array, another value, or a SyntaxError.
Bodies == [k : {"array"}, data : Datasets]
          \cup [k : {"nonArray", "syntaxError"}, data : {<<>>}]
NoBody == [k |-> "none", data |-> <<>>]

\* A thrown value: an Error with its message, or a value that is no Error.
SyntaxMsg      == "Unexpected token in JSON"
FetchFailedMsg == "Failed to fetch"
NoThrow  == [isError |-> FALSE, message |-> NULL]
Rejections == {[isError |-> TRUE, message |-> FetchFailedMsg], NoThrow}

\* What a fetch can come to: a response (status and body) or a rejection.
\* A response with a status outside 200..299 carries a body too.
UrlOutcomes ==
    [fetch : {"response"}, status : {200}, body : Bodies, thrown : {NoThrow}]
    \cup [fetch : {"response"}, status : {404, 500},
          body : {[k |-> "array", data |-> DataTitles]}, thrown : {NoThrow}]
    \cup [fetch : {"reject"}, status : {0}, body : {NoBody}, thrown : Rejections]

\* What a FileReader's onload finds in reader.result.
FileOutcomes ==
    [fetch : {"file"}, status : {0}, body : Bodies, thrown : {NoThrow}]

NoOutcome == [fetch |-> "none", status |-> 0, body |-> NoBody, thrown |-> NoThrow]

\* window.location.search
Searches == { <<>>,
              << <<"page", "2">>, <<"file", "">>, <<"file", "/c.json">> >> }

\* ---------------------------------------------------------------- messages
ExpectedArrayMsg == "Ozhidaetsya JSON-massiv"
GenericMsg       == "Oshibka chteniya fajla"
StatusMsg(status) == "Ne udalos zagruzit fajl: " \o ToString(status)

\* ---------------------------------------------------------------- loader
\* URLSearchParams.get: the first value of the name, null when there is none.
RECURSIVE paramsGet(_, _)
paramsGet(params, name) ==
    IF params = <<>> THEN NULL
    ELSE IF Head(params)[1] = name THEN Head(params)[2]
         ELSE paramsGet(Tail(params), name)

\* params.get("file") ?? "/mappings.json"
computeDefaultFileUrl(s) ==
    LET v == paramsGet(s, "file") IN IF v = NULL THEN "/mappings.json" ELSE v

\* response.ok
ResponseOk(status) == status >= 200 /\ status <= 299

Return(data) == [thrown |-> FALSE, isError |-> FALSE, message |-> NULL, data |-> data]
Throw(t)     == [thrown |-> TRUE, isError |-> t.isError, message |-> t.message, data |-> <<>>]
ThrowError(m) == Throw([isError |-> TRUE, message |-> m])

\* The try block of reader.onload (lines 85-90).
onloadTry(out) ==
    IF out.body.k = "syntaxError" THEN ThrowError(SyntaxMsg)
    ELSE IF out.body.k # "array" THEN ThrowError(ExpectedArrayMsg)
    ELSE Return(out.body.data)

\* Mutant of loadFromUrlTry: the Array.isArray check of line 108 is missing.
loadFromUrlTryNoArrayCheck(out) ==
    IF out.fetch = "reject" THEN Throw(out.thrown)
    ELSE IF ~ResponseOk(out.status) THEN ThrowError(StatusMsg(out.status))
    ELSE IF out.body.k = "syntaxError" THEN ThrowError(SyntaxMsg)
    ELSE Return(out.body.data)

\* The try block of loadFromUrl (lines 103-111).
loadFromUrlTry(out) ==
    IF out.fetch = "reject" THEN Throw(out.thrown)
    ELSE IF ~ResponseOk(out.status) THEN ThrowError(StatusMsg(out.status))
    ELSE IF out.body.k = "syntaxError" THEN ThrowError(SyntaxMsg)
    ELSE IF out.body.k # "array" THEN ThrowError(ExpectedArrayMsg)
    ELSE Return(out.body.data)

\* Mutant of catchMessage: err.message without the instanceof test, which is
\* undefined for a thrown value that is no Error.
catchMessageNoFallback(t) == t.message

\* err instanceof Error ? err.message : <generic text>
catchMessage(t) == IF t.isError THEN t.message ELSE GenericMsg

\* ---------------------------------------------------------------- rendering
\* useMemo: the cached value is kept while the dependencies are the ones of
\* the previous render; the first render computes.  (React compares the
\* dependencies by identity; the memoised functions are pure, so comparing
\* them by value gives the same values.)
useMemo(prevDeps, deps, prev, value) ==
    IF mounted /\ prevDeps = deps THEN prev ELSE value

\* The memo's function is called in this render.
memoRuns(prevDeps, deps) == ~(mounted /\ prevDeps = deps)

\* The dependency lists of the memos and of the effect.
defaultFileUrlDeps == <<>>
keysDeps(r) == <<r>>
\* Mutant of resultsDeps: actualKey is missing from the dependency list.
resultsDepsNoActualKey(r, ek, ak) == <<r, ek>>
resultsDeps(r, ek, ak) == <<r, ek, ak>>
summaryDeps(res) == <<res>>
effectDeps(url) == <<url>>

\* Mutant of effectRuns: useEffect without a dependency list runs after every
\* render.
effectRunsEveryRender(prevDeps, deps) == TRUE

\* useEffect: the effect runs after the first render and after every render
\* whose dependencies differ from those of the render before.
effectRuns(prevDeps, deps) == ~mounted \/ prevDeps # deps

\* The synchronous head of loadFromUrl (lines 100-103): up to the await.
loadFromUrlStart(u, url) ==
    [u EXCEPT !.loading = TRUE,
              !.error = NULL,
              !.fetchLog = Append(@, url),
              !.pending = @ \cup {[id |-> u.started + 1, kind |-> "url"]},
              !.started = @ + 1,
              !.urlPromise = "pending"]

\* A memo function throws during the render: no error boundary is set, so
\* React unmounts the component; its state is gone and nothing is shown or
\* handled any more.  The state cells keep their last rendered values here.
Crash(ev) ==
    /\ crashed' = TRUE
    /\ lastEvent' = ev
    /\ UNCHANGED <<mounted, search, defaultFileUrl, rows, expectedKey, actualKey,
                   error, loading, keys, results, summary, pending, started,
                   fetchLog, urlPromise>>

\* The handler's state updates u are applied in one batch (React batches the
\* set-state calls of one handler or continuation into one render), the
\* component renders (the memos of lines 41-74) and the effect of line 120
\* runs if due.
Commit(u, ev) ==
    LET url == useMemo(defaultFileUrlDeps, defaultFileUrlDeps, defaultFileUrl,
                       computeDefaultFileUrl(search))
        run == effectRuns(effectDeps(defaultFileUrl), effectDeps(url))
        v   == IF run THEN loadFromUrlStart(u, url) ELSE u
        res == useMemo(resultsDeps(rows, expectedKey, actualKey),
                       resultsDeps(v.rows, v.expectedKey, v.actualKey),
                       results, computeRows(v.rows, v.expectedKey, v.actualKey))
        threw == \/ /\ memoRuns(keysDeps(rows), keysDeps(u.rows))
                    /\ detectKeysThrows(u.rows)
                 \/ /\ memoRuns(resultsDeps(rows, expectedKey, actualKey),
                                 resultsDeps(u.rows, u.expectedKey, u.actualKey))
                    /\ computeRowsThrows(u.rows, u.expectedKey, u.actualKey)
    IN  /\ ~crashed
        /\ IF threw THEN Crash(ev)
           ELSE /\ crashed' = FALSE
                /\ mounted' = TRUE
                /\ defaultFileUrl' = url
                /\ rows' = v.rows
                /\ expectedKey' = v.expectedKey
                /\ actualKey' = v.actualKey
                /\ error' = v.error
                /\ loading' = v.loading
                /\ pending' = v.pending
                /\ started' = v.started
                /\ urlPromise' = v.urlPromise
                /\ keys' = useMemo(keysDeps(rows), keysDeps(v.rows), keys, detectKeys(v.rows))
                /\ results' = res
                /\ summary' = useMemo(summaryDeps(results), summaryDeps(res), summary, summarize(res))
                /\ fetchLog' = v.fetchLog
                /\ lastEvent' = ev
                /\ UNCHANGED search

\* The component's state as the handlers see it.
Current ==
    [rows |-> rows, expectedKey |-> expectedKey, actualKey |-> actualKey,
     error |-> error, loading |-> loading, pending |-> pending,
     started |-> started, fetchLog |-> fetchLog, urlPromise |-> urlPromise]

Event(op, id, out, key) == [op |-> op, id |-> id, out |-> out, key |-> key]

\* ---------------------------------------------------------------- actions
\* useState initial values (lines 35-39); nothing rendered, nothing loading.
Init ==
    /\ mounted = FALSE
    /\ search \in Searches
    /\ defaultFileUrl = NULL
    /\ rows = <<>>
    /\ expectedKey = "title"
    /\ actualKey = "matched_csv_title"
    /\ error = NULL
    /\ loading = FALSE
    /\ keys = <<>>
    /\ results = <<>>
    /\ summary = [total |-> 0, matched |-> 0, mismatched |-> 0]
    /\ pending = {}
    /\ started = 0
    /\ fetchLog = <<>>
    /\ urlPromise = "none"
    /\ lastEvent = Event("none", 0, NoOutcome, NULL)
    /\ crashed = FALSE

\* First activation: the first render and the effect of lines 120-122.
Mount ==
    /\ ~mounted
    /\ Commit(Current, Event("mount", started + 1, NoOutcome, NULL))

\* Mutant of FileChangeNoFile: setError(null) comes before the test for a
\* file.
FileChangeNoFileClearsError ==
    /\ mounted
    /\ lastEvent # Event("fileChangeNoFile", 0, NoOutcome, NULL)
    /\ Commit([Current EXCEPT !.error = NULL],
              Event("fileChangeNoFile", 0, NoOutcome, NULL))

\* handleFileChange with no file chosen (lines 77-80): returns at once.
FileChangeNoFile ==
    /\ mounted
    /\ ~crashed
    /\ lastEvent # Event("fileChangeNoFile", 0, NoOutcome, NULL)
    /\ lastEvent' = Event("fileChangeNoFile", 0, NoOutcome, NULL)
    /\ UNCHANGED <<mounted, search, defaultFileUrl, rows, expectedKey, actualKey,
                   error, loading, keys, results, summary, pending, started,
                   fetchLog, urlPromise, crashed>>

\* Mutant of FileChange: setError(null) of line 81 is missing.
FileChangeKeepsError ==
    /\ mounted
    /\ started - Len(fetchLog) < MaxFileLoads
    /\ Commit([Current EXCEPT !.pending = @ \cup {[id |-> started + 1, kind |-> "file"]},
                              !.started = @ + 1],
              Event("fileChange", started + 1, NoOutcome, NULL))

\* handleFileChange with a file (lines 81-96): the error is cleared and the
\* read is started.
FileChange ==
    /\ mounted
    /\ started - Len(fetchLog) < MaxFileLoads
    /\ Commit([Current EXCEPT !.error = NULL,
                              !.pending = @ \cup {[id |-> started + 1, kind |-> "file"]},
                              !.started = @ + 1],
              Event("fileChange", started + 1, NoOutcome, NULL))

\* Mutant of onload: a finished read also puts the selects back to the
\* default keys.
onloadResetsKeys(out) ==
    LET t == onloadTry(out)
        u == [Current EXCEPT !.expectedKey = "title", !.actualKey = "matched_csv_title"]
    IN  IF ~t.thrown
        THEN [u EXCEPT !.rows = t.data]
        ELSE [u EXCEPT !.rows = <<>>, !.error = catchMessage(t)]

\* reader.onload (lines 83-95).
onload(out) ==
    LET t == onloadTry(out)
    IN  IF ~t.thrown
        THEN [Current EXCEPT !.rows = t.data]
        ELSE [Current EXCEPT !.rows = <<>>, !.error = catchMessage(t)]

FileLoaded ==
    \E p \in pending, out \in FileOutcomes :
        /\ p.kind = "file"
        /\ Commit([onload(out) EXCEPT !.pending = @ \ {p}],
                  Event("fileLoaded", p.id, out, NULL))

\* The read fails: FileReader fires "error", for which no handler is set, and
\* onload never runs.
FileReadError ==
    \E p \in pending :
        /\ p.kind = "file"
        /\ pending' = pending \ {p}
        /\ UNCHANGED <<mounted, search, defaultFileUrl, rows, expectedKey, actualKey,
                       error, loading, keys, results, summary, started,
                       fetchLog, urlPromise, lastEvent, crashed>>

\* Mutant of loadFromUrlResume: setLoading(false) at the end of the try block
\* instead of in a finally, so the failure path leaves loading set.
loadFromUrlResumeNoFinally(out) ==
    LET t == loadFromUrlTry(out)
    IN  IF ~t.thrown
        THEN [Current EXCEPT !.rows = t.data, !.loading = FALSE,
                             !.urlPromise = "fulfilled"]
        ELSE [Current EXCEPT !.rows = <<>>, !.error = catchMessage(t),
                             !.urlPromise = "fulfilled"]

\* loadFromUrl from the await on (lines 103-117): try, catch, finally.
loadFromUrlResume(out) ==
    LET t == loadFromUrlTry(out)
        u == IF ~t.thrown
             THEN [Current EXCEPT !.rows = t.data]
             ELSE [Current EXCEPT !.rows = <<>>, !.error = catchMessage(t)]
    IN  [u EXCEPT !.loading = FALSE, !.urlPromise = "fulfilled"]

UrlSettledWith(outs) ==
    \E p \in pending, out \in outs :
        /\ p.kind = "url"
        /\ Commit([loadFromUrlResume(out) EXCEPT !.pending = @ \ {p}],
                  Event("urlSettled", p.id, out, NULL))

UrlSettled == UrlSettledWith(UrlOutcomes)

\* Mutant of SetExpectedKey: the change handler also reloads the default
\* source.
SetExpectedKeyReload ==
    \E k \in Range(keys) :
        /\ mounted
        /\ Len(rows) > 0
        /\ k # expectedKey
        /\ Commit(loadFromUrlStart([Current EXCEPT !.expectedKey = k], defaultFileUrl),
                  Event("setExpectedKey", 0, NoOutcome, k))

\* The select of lines 147-157: shown while rows is not empty, its options
\* are keys, and a change event carries an option other than the value.
SetExpectedKey ==
    \E k \in Range(keys) :
        /\ mounted
        /\ Len(rows) > 0
        /\ k # expectedKey
        /\ Commit([Current EXCEPT !.expectedKey = k],
                  Event("setExpectedKey", 0, NoOutcome, k))

\* The select of lines 162-172.
SetActualKey ==
    \E k \in Range(keys) :
        /\ mounted
        /\ Len(rows) > 0
        /\ k # actualKey
        /\ Commit([Current EXCEPT !.actualKey = k],
                  Event("setActualKey", 0, NoOutcome, k))

Next ==
    \/ Mount
    \/ FileChangeNoFile
    \/ FileChange
    \/ FileLoaded
    \/ FileReadError
    \/ UrlSettled
    \/ SetExpectedKey
    \/ SetActualKey

Spec == Init /\ [][Next]_vars

\* The default source answers 200 with any dataset of the pool, and the keys
\* are then changed: the derived values over every dataset and key pair.
UrlLoaded ==
    UrlSettledWith([fetch : {"response"}, status : {200},
                    body : [k : {"array"}, data : PoolDatasets], thrown : {NoThrow}])

DeriveNext ==
    \/ Mount
    \/ UrlLoaded
    \/ SetExpectedKey
    \/ SetActualKey

DeriveSpec == Init /\ [][DeriveNext]_vars

\* The user picks a file only when no load is under way: loads that do not
\* overlap.
SeqFileChange ==
    /\ pending = {}
    /\ FileChange

SeqNext ==
    \/ Mount
    \/ FileChangeNoFile
    \/ SeqFileChange
    \/ FileLoaded
    \/ FileReadError
    \/ UrlSettled
    \/ SetExpectedKey
    \/ SetActualKey

SeqSpec == Init /\ [][SeqNext]_vars

\* The default source answers 200 with a record holding any title.
TitleLoaded ==
    UrlSettledWith([fetch : {"response"}, status : {200},
                    body : [k : {"array"}, data : TitleDatasets], thrown : {NoThrow}])

NormalizeNext ==
    \/ Mount
    \/ TitleLoaded

NormalizeSpec == Init /\ [][NormalizeNext]_vars

\* The fetch settles: the promise of line 103 is fulfilled or rejected.
FairSpec == Spec /\ WF_vars(UrlSettled)

\* ---------------------------------------------------------------- claims
\* A load has ended and its handler has run.
Completed(ev) == ev.op \in {"fileLoaded", "urlSettled"}

\* C1: when a load ends after a newer load was initiated, its outcome
\* overwrites neither the dataset nor the error: only the newest load's
\* outcome may.
C1_OnlyNewestLoadOverwrites ==
    [][(Completed(lastEvent') /\ lastEvent' # lastEvent /\ lastEvent'.id # started)
          => (rows' = rows /\ error' = error)]_vars

\* C2: in every state, an error message is shown only with an empty dataset.
C2_ErrorImpliesEmptyDataset ==
    error # NULL => rows = <<>>

\* C3: in every state at most one of "loading", "an error is set" and "the
\* dataset is not empty" holds.
C3_OneLoadStateLive ==
    /\ ~(loading /\ error # NULL)
    /\ ~(loading /\ rows # <<>>)
    /\ ~(error # NULL /\ rows # <<>>)

\* The load that just ended read a JSON value that is no array.
ReadNonArray(ev) ==
    /\ Completed(ev)
    /\ ev.out.body.k = "nonArray"
    /\ ev.op = "urlSettled" => (ev.out.status >= 200 /\ ev.out.status <= 299)

\* C4: right after a load, by file or by URL, of a JSON value that is no
\* array, the error is the one "array expected" message and the dataset is
\* empty.
C4_NonArrayFails ==
    ReadNonArray(lastEvent) =>
        (error = "Ozhidaetsya JSON-massiv" /\ rows = <<>>)

C4_Witness ==
    /\ ReadNonArray(lastEvent)
    /\ lastEvent.op = "urlSettled"
    /\ started > 1

\* C5: right after a URL load that got a status outside 200..299, or whose
\* fetch or parse threw, the error carries the status (or the thrown error's
\* message, or the generic text for a thrown value that is no Error), the
\* dataset is empty, loading is over and the loader's promise is fulfilled,
\* not rejected.
C5_UrlFailureBecomesFailed ==
    LET out == lastEvent.out IN
    (lastEvent.op = "urlSettled" /\ ~(out.fetch = "response" /\ out.status = 200 /\ out.body.k # "syntaxError")) =>
        /\ rows = <<>>
        /\ ~loading
        /\ urlPromise = "fulfilled"
        /\ (out.fetch = "response" /\ out.status # 200)
              => error = "Ne udalos zagruzit fajl: " \o ToString(out.status)
        /\ (out.fetch = "response" /\ out.status = 200)
              => error = SyntaxMsg
        /\ (out.fetch = "reject" /\ out.thrown.isError)
              => error = out.thrown.message
        /\ (out.fetch = "reject" /\ ~out.thrown.isError)
              => error = "Oshibka chteniya fajla"

C5_Witness ==
    /\ lastEvent.op = "urlSettled"
    /\ lastEvent.out.fetch = "reject"
    /\ ~lastEvent.out.thrown.isError
    /\ error = "Oshibka chteniya fajla"

\* C6: loading is set exactly while the promise of loadFromUrl is pending:
\* from the initiation to the settling of the fetch, and not after it on
\* either path; and when the fetch settles, every state with loading set is
\* followed by one with loading clear.
C6_LoadingWhileFetching ==
    /\ [](loading <=> urlPromise = "pending")
    /\ (loading ~> ~loading)

\* The fetch failed and loading is over.
C6_Witness ==
    /\ lastEvent.op = "urlSettled"
    /\ error # NULL
    /\ ~loading

\* The first value of the query parameter "file", NULL when there is none.
FileParam ==
    IF \E i \in DOMAIN search : search[i][1] = "file"
    THEN search[CHOOSE i \in DOMAIN search :
                    /\ search[i][1] = "file"
                    /\ \A j \in 1..(i - 1) : search[j][1] # "file"][2]
    ELSE NULL

\* C7: once the component is mounted, fetch has been called exactly once,
\* with the value of the query parameter "file", or with /mappings.json when
\* there is no such parameter; no later event calls it again.
C7_DefaultLoadOnce ==
    /\ ~mounted => fetchLog = <<>>
    /\ mounted => /\ Len(fetchLog) = 1
                  /\ FileParam # NULL => fetchLog[1] = FileParam
                  /\ FileParam = NULL => fetchLog[1] = "/mappings.json"

\* The default load failed, events followed, and nothing was fetched again.
C7_Witness ==
    /\ urlPromise = "fulfilled"
    /\ error # NULL
    /\ lastEvent.op = "fileLoaded"
    /\ Len(fetchLog) = 1

\* C8: a step that changes expectedKey or actualKey changes neither the
\* dataset, the error, the loading flag nor the key list, and starts no load.
C8_KeyChangeFrame ==
    [][(expectedKey' # expectedKey \/ actualKey' # actualKey)
          => /\ rows' = rows
             /\ error' = error
             /\ loading' = loading
             /\ keys' = keys
             /\ pending' = pending
             /\ started' = started
             /\ fetchLog' = fetchLog
             /\ urlPromise' = urlPromise]_vars

\* Both keys were changed on a loaded dataset.
C8_Witness ==
    /\ rows # <<>>
    /\ expectedKey # "title"
    /\ actualKey # "matched_csv_title"
    /\ lastEvent.op \in {"setExpectedKey", "setActualKey"}

\* C9: in every rendered state the rows shown are computeRows of the current
\* dataset and keys, the summary is summarize of those rows, and the key list
\* is detectKeys of the current dataset.
C9_DerivedNeverStale ==
    mounted =>
        /\ results = computeRows(rows, expectedKey, actualKey)
        /\ summary = summarize(computeRows(rows, expectedKey, actualKey))
        /\ keys = detectKeys(rows)

\* A dataset loaded after the keys were changed on an earlier one.
C9_Witness ==
    /\ lastEvent.op = "fileLoaded"
    /\ rows # <<>>
    /\ actualKey # "matched_csv_title"
    /\ results # <<>>

\* C10: for every dataset and key pair the summary has matched + mismatched
\* = total = the number of rows shown, matched is the number of rows with
\* isExact, and no count is negative.
C10_SummaryCounts ==
    /\ summary.matched + summary.mismatched = summary.total
    /\ summary.total = Len(results)
    /\ summary.matched = Cardinality({i \in DOMAIN results : results[i].isExact})
    /\ summary.total >= 0
    /\ summary.matched >= 0
    /\ summary.mismatched >= 0

\* Matched and mismatched rows together, under a changed key pair.
C10_Witness ==
    /\ summary.matched >= 1
    /\ summary.mismatched >= 1
    /\ expectedKey # "title"
    /\ actualKey # "matched_csv_title"

\* What the claims say extract returns for the own value v of a key
\* (JsUndefined when the record has no such member).
ClaimedText(v, text) ==
    /\ (v = JsUndefined \/ v = JsNull) => text = <<>>
    /\ v.t = "string" => text = v.s
    /\ v = Num(42) => text = <<"4", "2">>
    /\ v = Bool(TRUE) => text = <<"t", "r", "u", "e">>
    /\ v = Bool(FALSE) => text = <<"f", "a", "l", "s", "e">>

\* C11: computing the rows never fails; there is one row per record, in the
\* records' order, row i holding the texts extracted from record i under the
\* two keys and their normal forms; the empty dataset gives no rows.
C11_ComputeRowsTotal ==
    /\ ~crashed
    /\ mounted =>
        /\ Len(results) = Len(rows)
        /\ rows = <<>> => results = <<>>
        /\ \A i \in DOMAIN results :
              /\ results[i].expectedTitle = extractString(rows[i], expectedKey)
              /\ results[i].actualTitle = extractString(rows[i], actualKey)
              /\ results[i].expectedNorm = normalizeTitle(results[i].expectedTitle)
              /\ results[i].actualNorm = normalizeTitle(results[i].actualTitle)

\* C14: extract never fails on a record, gives the empty text for a key the
\* record lacks or holds null under, and else the value's text.
C14_ExtractTotal ==
    mounted =>
        \A i \in DOMAIN results :
            /\ ~extractStringThrows(rows[i], expectedKey)
            /\ ~extractStringThrows(rows[i], actualKey)
            /\ ClaimedText(GetOwn(rows[i], expectedKey), results[i].expectedTitle)
            /\ ClaimedText(GetOwn(rows[i], actualKey), results[i].actualTitle)

\* The place of key k in the sequence ks.
IndexOf(ks, k) == CHOOSE i \in DOMAIN ks : ks[i] = k

\* C15: the key list is empty for the empty dataset and else holds exactly
\* the keys of the first record, each once, those that are no array index in
\* the order the record holds them; a key that only a later record has is
\* not in it.
C15_DetectKeysFirstRecord ==
    mounted =>
        /\ rows = <<>> => keys = <<>>
        /\ rows # <<>> =>
            LET first == rows[1] IN
            /\ Len(keys) = Len(first)
            /\ Range(keys) = {first[i].key : i \in DOMAIN first}
            /\ \A i, j \in DOMAIN first :
                  (i < j /\ {first[i].key, first[j].key} \cap Range(IntegerKeys) = {})
                      => IndexOf(keys, first[i].key) < IndexOf(keys, first[j].key)
            /\ \A n \in DOMAIN rows : \A m \in DOMAIN rows[n] :
                  ~HasOwn(first, rows[n][m].key) => rows[n][m].key \notin Range(keys)

\* A later record has a key the first record lacks, and the first record
\* holds several keys.
C15_Witness ==
    /\ Len(rows) > 1
    /\ Len(keys) > 2
    /\ \E m \in DOMAIN rows[2] : ~HasOwn(rows[1], rows[2][m].key)

\* C18: a row is exact exactly when the normal forms of the two extracted
\* texts are equal; a record that has neither selected key, or null under
\* them, gives an exact row; with the same key selected twice no row is a
\* mismatch.
C18_ExactIffNormsEqual ==
    mounted =>
        /\ \A i \in DOMAIN results :
              /\ results[i].isExact <=>
                    (normalizeTitle(extractString(rows[i], expectedKey))
                        = normalizeTitle(extractString(rows[i], actualKey)))
              /\ (/\ GetOwn(rows[i], expectedKey) \in {JsUndefined, JsNull}
                  /\ GetOwn(rows[i], actualKey) \in {JsUndefined, JsNull})
                    => results[i].isExact
        /\ expectedKey = actualKey => summary.mismatched = 0

\* C12: normalizing a normal form changes nothing.
C12_NormalizeIdempotent ==
    \A i \in DOMAIN results :
        /\ normalizeTitle(results[i].expectedNorm) = results[i].expectedNorm
        /\ normalizeTitle(results[i].actualNorm) = results[i].actualNorm

\* A title whose normal form differs from it and holds a space.
C12_Witness ==
    \E i \in DOMAIN results :
        /\ "U+0130" \in Range(results[i].expectedTitle)
        /\ " " \in Range(results[i].expectedNorm)
        /\ results[i].expectedNorm # results[i].expectedTitle

\* A letter that lower-casing leaves as it is.
IsLowerLetter(c) == IsLetter(c) /\ LowerChar(c) = <<c>>

\* C13: a normal form holds only lower-case letters, digits and spaces, has
\* no space at either end and no two spaces in a row, and is empty when the
\* title holds no letter and no digit.
C13_NormalFormShape ==
    \A i \in DOMAIN results :
        LET in  == results[i].expectedTitle
            out == results[i].expectedNorm
        IN  /\ \A n \in DOMAIN out : out[n] = " " \/ IsLowerLetter(out[n]) \/ IsNumber(out[n])
            /\ out # <<>> => (out[1] # " " /\ out[Len(out)] # " ")
            /\ \A n \in 1..(Len(out) - 1) : ~(out[n] = " " /\ out[n + 1] = " ")
            /\ (\A n \in DOMAIN in : ~(IsLetter(in[n]) \/ IsNumber(in[n]))) => out = <<>>

\* A title with a capital letter, a comma and a digit, in a three-character
\* normal form.
C13_Witness ==
    \E i \in DOMAIN results :
        /\ {"A", ",", "1"} \subseteq Range(results[i].expectedTitle)
        /\ results[i].expectedNorm = <<"a", " ", "1">>

\* The reason a load fails with, NULL when it succeeds.
LoadReason(out) ==
    IF out.fetch = "reject"
    THEN IF out.thrown.isError THEN out.thrown.message ELSE "Oshibka chteniya fajla"
    ELSE IF out.fetch = "response" /\ (out.status < 200 \/ out.status > 299)
    THEN "Ne udalos zagruzit fajl: " \o ToString(out.status)
    ELSE IF out.body.k = "syntaxError" THEN SyntaxMsg
    ELSE IF out.body.k = "nonArray" THEN "Ozhidaetsya JSON-massiv"
    ELSE NULL

C17_LoadsKeepFieldSelection ==
    /\ (expectedKey = "title" /\ actualKey = "matched_csv_title")
    /\ [][/\ expectedKey' # expectedKey => lastEvent'.op = "setExpectedKey"
          /\ actualKey' # actualKey => lastEvent'.op = "setActualKey"]_vars
    /\ [](\A i \in DOMAIN results :
            /\ (expectedKey = "title" /\ ~HasOwn(rows[i], "title"))
                  => results[i].expectedTitle = <<>>
            /\ (actualKey = "matched_csv_title" /\ ~HasOwn(rows[i], "matched_csv_title"))
                  => results[i].actualTitle = <<>>)

\* A file load has ended with a selection made before it still in place, on
\* records of which one lacks the default actual key.
C17_Witness ==
    /\ lastEvent.op = "fileLoaded"
    /\ expectedKey = "name"
    /\ actualKey = "matched_csv_title"
    /\ rows = DataNames
    /\ results[1].actualTitle = <<>>

\* C19: the step that starts a file read clears the error and leaves the
\* dataset and the loading flag as they are; neither that step nor the end
\* of the read changes the loading flag; and a file-change event without a
\* file changes nothing: the error stays and no read is started.
C19_FileChangeFrame ==
    [][/\ (lastEvent'.op = "fileChange" /\ lastEvent' # lastEvent)
             => /\ error' = NULL
                /\ rows' = rows
                /\ loading' = loading
                /\ \E p \in pending' \ pending : p.kind = "file"
       /\ (lastEvent'.op = "fileLoaded" /\ lastEvent' # lastEvent)
             => loading' = loading
       /\ (lastEvent'.op = "fileChangeNoFile" /\ lastEvent' # lastEvent)
             => UNCHANGED <<rows, error, loading, expectedKey, actualKey, keys,
                            results, summary, pending, started, fetchLog>>]_vars

\* A file read has just been started while the default load is still under
\* way and an earlier file's dataset is shown.
C19_Witness ==
    /\ lastEvent.op = "fileChange"
    /\ rows # <<>>
    /\ error = NULL
    /\ loading

====
